---- MODULE Spec2Model ----
(***************************************************************************)
(* Player activity state machine of Adventure (utils/objects.py).          *)
(*                                                                         *)
(* One owner.  The Player object lives in the memory of the bot process;   *)
(* the timers and the next_map / status keys live in Redis.  Every         *)
(* coroutine is cut at its awaits: one step of a task runs the code from   *)
(* the resumption after one await up to and including the Redis command of *)
(* the next await.  The command takes effect when it is issued and its     *)
(* reply is kept in busy[t] / got until the task is resumed, so any other task  *)
(* may run between a command and the code that consumes its reply.         *)
(***************************************************************************)
EXTENDS Integers, Naturals, Sequences, FiniteSets, TLC

\* ---------------------------------------------------------------- bounds
NumMaps == 2
MaxDensity == 1
NumCallers == 2
MaxClockDelta == 1
MaxCalls == 3
MaxCostDensity == 617

\* ------------------------------------------------------------- constants
TravelDivisor == 1234
ExploreFactor == 1234
ExploreDivisor == 1000000
StartMapId == 0

\* Python None where a Map is expected, and the nil reply of Redis
NoMap == -1
Nil == "nil"

\* the one owner whose Player is followed
Owner == "owner"

Maps == 0 .. (NumMaps - 1)
Callers == 1 .. NumCallers
FirstCaller == 1
Poller == 0
Tasks == {Poller} \cup Callers

\* Map.density of the loaded maps
density == [m \in Maps |-> 1 + (m % MaxDensity)]

\* class Status(enum.Enum)
Status == [idle |-> 0, travelling |-> 1, exploring |-> 2]

VARIABLES
    map,            \* Player._map (a map id)
    next_map,       \* Player._next_map (a map id or None)
    status,         \* Player.status (a Status value)
    explored_maps,  \* Player._explored_maps (a list of map ids)
    ttl,            \* Redis: seconds given to travelling_{owner} and exploring_{owner} while the key lives, 0 = key absent
    redis,          \* Redis: value of next_map_{owner} and status_{owner} (a string or None)
    db,             \* the owner's row in the players table
    pc,             \* position of every task
    arg,            \* destination argument of a running travel_to
    busy,           \* what the awaited is_travelling() / is_exploring() of a task returned
    got,            \* what the awaited GET of the polling task returned
    result,         \* outcome of a finished call
    calls,          \* number of commands the owner has issued
    turn,           \* which updater the polling loop calls next
    trip,           \* history: the travel whose timer was written last
    players,        \* PlayerManager.players (the owners with a live Player)
    cost            \* the densities and the clock delta of a quoted duration, and the durations

vars == <<map, next_map, status, explored_maps, ttl, redis, db,
          pc, arg, busy, got, result, calls, turn, trip, players, cost>>

player == <<map, next_map, status, explored_maps>>
store == <<ttl, redis>>

\* ------------------------------------------------------- string encoding
\* str(n) for the small numbers written to Redis
str(n) == CASE n = 0 -> "0" [] n = 1 -> "1" [] n = 2 -> "2" [] n = 3 -> "3"
            [] n = 4 -> "4" [] OTHER -> "5"

\* MapManager.get_map / resolve_map of an id read back from Redis
get_map(v) == CASE v = "0" -> 0 [] v = "1" -> 1 [] v = "2" -> 2 [] v = "3" -> 3
                [] v = "4" -> 4 [] v = "5" -> 5 [] OTHER -> NoMap

\* Python values that are compared with ==
PyStr(s) == [type |-> "str", val |-> s]
PyInt(n) == [type |-> "int", val |-> n]
PyEq(a, b) == a.type = b.type /\ a.val = b.val

\* ------------------------------------------------------------- durations
MicrosPerSecond == 1000000
SecondsPerHour == 3600

RECURSIVE Gcd(_, _)
Gcd(a, b) == IF b = 0 THEN a ELSE Gcd(b, a % b)

\* timedelta(hours=num / den): whole seconds and microseconds (rounded to the
\* nearest microsecond); 3600 / den is reduced first to keep the products small
Reduced(den) == den \div Gcd(SecondsPerHour, den)
PerHour(den) == SecondsPerHour \div Gcd(SecondsPerHour, den)
WholeSeconds(num, den) == (PerHour(den) * num) \div Reduced(den)
Microseconds(num, den) ==
    LET r == (PerHour(den) * num) % Reduced(den) IN
    IF MicrosPerSecond % Reduced(den) = 0
      THEN r * (MicrosPerSecond \div Reduced(den))
      ELSE (r * MicrosPerSecond + (Reduced(den) \div 2)) \div Reduced(den)

\* int(((datetime.now() + timedelta(hours=num / den)) - datetime.now()).total_seconds())
\* delta = microseconds between the two clock reads, less than a second;
\* int() truncates towards zero
SecondsFromNow(num, den, delta) ==
    IF Microseconds(num, den) >= delta THEN WholeSeconds(num, den)
    ELSE IF WholeSeconds(num, den) > 0 THEN WholeSeconds(num, den) - 1
    ELSE 0

\* line 159: the seconds travel_to computes for two densities
travel_seconds(from_density, to_density, delta) ==
    SecondsFromNow(from_density + to_density, TravelDivisor, delta)

\* line 180: the seconds explore computes for a density
explore_seconds(map_density, delta) ==
    SecondsFromNow(map_density * ExploreFactor, ExploreDivisor, delta)

\* Map.calculate_travel_to: (self.density + other.density) / 1234 hours
calculate_travel_to(from, to, delta) ==
    travel_seconds(density[from], density[to], delta)

\* Map.calculate_explore: (self.density * 1234) / (1000 ** 2) hours
calculate_explore(m, delta) ==
    explore_seconds(density[m], delta)

\* ------------------------------------------------------------ Redis TTL
\* the keys that are written with EX
TimerKeys == {"travelling", "exploring"}

\* TTL key: positive while the key lives, -2 when the key does not exist
TTL(key) == IF ttl[key] = 0 THEN -2 ELSE ttl[key]

\* travel_time, line 143 (lines 141-142 run only when self.map is None; the
\* query actions below model that branch)
\* travel_time asking for the exploring key
travel_time_exploring_key == TTL("exploring")
travel_time == TTL("travelling")
\* explore_time asking for the travelling key
explore_time_travelling_key == TTL("travelling")
explore_time == TTL("exploring")
is_travelling == travel_time > 0
\* is_exploring taking every reply but 0 as time left
is_exploring_nonzero == explore_time # 0
is_exploring == explore_time > 0

\* result[t] while the call of t has not finished
NoResult == "-"

\* cost while no duration has been quoted
NoCost == [from |-> 0, to |-> 0, delta |-> 0, travel |-> 0, explore |-> 0]

InSeq(x, s) == \E i \in 1 .. Len(s) : s[i] = x

Init ==
    /\ map = StartMapId
    /\ next_map = NoMap
    /\ status = Status.idle
    /\ explored_maps = <<StartMapId>>
    /\ ttl = [travelling |-> 0, exploring |-> 0]
    /\ redis = [next_map |-> Nil, status |-> Nil]
    /\ db = [map_id |-> StartMapId, explored |-> <<StartMapId>>]
    /\ pc = [t \in Tasks |-> "idle"]
    /\ arg = [t \in Callers |-> NoMap]
    /\ busy = [t \in Tasks |-> FALSE]
    /\ got = Nil
    /\ result = [t \in Tasks |-> NoResult]
    /\ calls = 0
    /\ turn = "update_travelling"
    /\ trip = [from |-> NoMap, to |-> NoMap]
    /\ players = {Owner}
    /\ cost = NoCost

\* -------------------------------------------------------------- helpers
Goto(t, p) == pc' = [pc EXCEPT ![t] = p]
Await(t, v) == busy' = [busy EXCEPT ![t] = v]
Finish(t, r) ==
    /\ pc' = [pc EXCEPT ![t] = "done"]
    /\ result' = [result EXCEPT ![t] = r]
    /\ busy' = [busy EXCEPT ![t] = FALSE]

\* SET key value EX seconds: Redis rejects an expire time that is not positive
SetExAccepted(seconds) == seconds > 0

\* --------------------------------------------------- Player.travel_to
\* line 151: the call enters is_travelling() and awaits TTL travelling_{owner}
CallTravelTo(t, destination) ==
    /\ Owner \in players
    /\ pc[t] = "idle"
    /\ calls < MaxCalls
    /\ calls' = calls + 1
    /\ arg' = [arg EXCEPT ![t] = destination]
    /\ Await(t, is_travelling)
    /\ Goto(t, "travel_to_151")
    /\ UNCHANGED <<player, store, db, players, cost, got, result, turn, trip>>

\* lines 151-155: busy travelling -> await travel_time() for the message,
\* otherwise await is_exploring()
TravelToCheckTravelling(t) ==
    /\ pc[t] = "travel_to_151"
    /\ IF busy[t]
         THEN Goto(t, "travel_to_154") /\ UNCHANGED busy
         ELSE Goto(t, "travel_to_155") /\ Await(t, is_exploring)
    /\ UNCHANGED <<player, store, db, players, cost, arg, got, result, calls, turn, trip>>

\* lines 152-154 and 156-158: raise utils.AlreadyTravelling
TravelToRaise(t) ==
    /\ pc[t] \in {"travel_to_154", "travel_to_158"}
    /\ Finish(t, "AlreadyTravelling")
    /\ UNCHANGED <<player, store, db, players, cost, arg, got, calls, turn, trip>>

\* lines 155-164: busy exploring -> await explore_time() for the message,
\* otherwise compute the duration, remember the destination and
\* SET travelling_{owner} EX time
TravelToStart(t) ==
    /\ pc[t] = "travel_to_155"
    /\ IF busy[t]
         THEN /\ Goto(t, "travel_to_158")
              /\ UNCHANGED <<next_map, ttl, trip, result, busy>>
         ELSE \E delta \in 0 .. MaxClockDelta :
                LET time == calculate_travel_to(map, arg[t], delta) IN
                /\ next_map' = arg[t]
                /\ IF SetExAccepted(time)
                     THEN /\ ttl' = [ttl EXCEPT !["travelling"] = time]
                          /\ trip' = [from |-> map, to |-> arg[t]]
                          /\ Goto(t, "travel_to_164")
                          /\ UNCHANGED <<result, busy>>
                     ELSE /\ Finish(t, "ResponseError")
                          /\ UNCHANGED <<ttl, trip>>
    /\ UNCHANGED <<map, status, explored_maps, redis, db, players, cost, arg, got, calls, turn>>

\* line 165: SET next_map_{owner} str(destination.id)
TravelToSetNextMap(t) ==
    /\ pc[t] = "travel_to_164"
    /\ redis' = [redis EXCEPT !["next_map"] = str(arg[t])]
    /\ Goto(t, "travel_to_165")
    /\ UNCHANGED <<player, ttl, db, players, cost, arg, busy, got, result, calls, turn, trip>>

\* line 166: SET status_{owner} "1"
TravelToSetStatus(t) ==
    /\ pc[t] = "travel_to_165"
    /\ redis' = [redis EXCEPT !["status"] = "1"]
    /\ Goto(t, "travel_to_166")
    /\ UNCHANGED <<player, ttl, db, players, cost, arg, busy, got, result, calls, turn, trip>>

\* line 167: self.status = Status.travelling, and the call returns
TravelToFinish(t) ==
    /\ pc[t] = "travel_to_166"
    /\ status' = Status.travelling
    /\ Finish(t, "ok")
    /\ UNCHANGED <<map, next_map, explored_maps, store, db, players, cost, arg, got, calls, turn, trip>>

travel_to(t) ==
    \/ TravelToCheckTravelling(t)
    \/ TravelToRaise(t)
    \/ TravelToStart(t)
    \/ TravelToSetNextMap(t)
    \/ TravelToSetStatus(t)
    \/ TravelToFinish(t)

\* ----------------------------------------------------- Player.explore
\* line 170: the call enters is_travelling() and awaits TTL travelling_{owner}
CallExplore(t) ==
    /\ Owner \in players
    /\ pc[t] = "idle"
    /\ calls < MaxCalls
    /\ calls' = calls + 1
    /\ Await(t, is_travelling)
    /\ Goto(t, "explore_170")
    /\ UNCHANGED <<player, store, db, players, cost, arg, got, result, turn, trip>>

\* lines 170-174
ExploreCheckTravelling(t) ==
    /\ pc[t] = "explore_170"
    /\ IF busy[t]
         THEN Goto(t, "explore_173") /\ UNCHANGED busy
         ELSE Goto(t, "explore_174") /\ Await(t, is_exploring)
    /\ UNCHANGED <<player, store, db, players, cost, arg, got, result, calls, turn, trip>>

\* lines 171-173 and 175-177: raise utils.AlreadyTravelling
ExploreRaise(t) ==
    /\ pc[t] \in {"explore_173", "explore_177"}
    /\ Finish(t, "AlreadyTravelling")
    /\ UNCHANGED <<player, store, db, players, cost, arg, got, calls, turn, trip>>

\* lines 174-179 with the explored check placed before the timer check
ExploreDecision_explored_first(exploring, explored) ==
    IF explored THEN "AlreadyExplored"
    ELSE IF exploring THEN "AlreadyTravelling"
    ELSE "start"

\* lines 174-179 without the explored check
ExploreDecision_no_explored_check(exploring, explored) ==
    IF exploring THEN "AlreadyTravelling" ELSE "start"

\* what lines 174-179 decide once both timers were asked
ExploreDecision(exploring, explored) ==
    IF exploring THEN "AlreadyTravelling"
    ELSE IF explored THEN "AlreadyExplored"
    ELSE "start"

\* lines 174-183: busy exploring -> await explore_time() for the message;
\* map already explored -> raise utils.AlreadyExplored; otherwise
\* SET exploring_{owner} EX time
ExploreStart(t) ==
    /\ pc[t] = "explore_174"
    /\ LET decision == ExploreDecision(busy[t], InSeq(map, explored_maps)) IN
       CASE decision = "AlreadyTravelling" ->
              /\ Goto(t, "explore_177")
              /\ UNCHANGED <<ttl, result, busy>>
         [] decision = "AlreadyExplored" ->
              /\ Finish(t, "AlreadyExplored")
              /\ UNCHANGED ttl
         [] OTHER ->
              \E delta \in 0 .. MaxClockDelta :
                LET time == calculate_explore(map, delta) IN
                IF SetExAccepted(time)
                  THEN /\ ttl' = [ttl EXCEPT !["exploring"] = time]
                       /\ Goto(t, "explore_183")
                       /\ UNCHANGED <<result, busy>>
                  ELSE /\ Finish(t, "ResponseError")
                       /\ UNCHANGED ttl
    /\ UNCHANGED <<player, redis, db, players, cost, arg, got, calls, turn, trip>>

\* line 184: SET status_{owner} "2"
ExploreSetStatus(t) ==
    /\ pc[t] = "explore_183"
    /\ redis' = [redis EXCEPT !["status"] = "2"]
    /\ Goto(t, "explore_184")
    /\ UNCHANGED <<player, ttl, db, players, cost, arg, busy, got, result, calls, turn, trip>>

\* lines 185-186: self.status = Status.exploring; append the current map
ExploreFinish(t) ==
    /\ pc[t] = "explore_184"
    /\ status' = Status.exploring
    /\ explored_maps' = Append(explored_maps, map)
    /\ Finish(t, "ok")
    /\ UNCHANGED <<map, next_map, store, db, players, cost, arg, got, calls, turn, trip>>

explore(t) ==
    \/ ExploreCheckTravelling(t)
    \/ ExploreRaise(t)
    \/ ExploreStart(t)
    \/ ExploreSetStatus(t)
    \/ ExploreFinish(t)

\* the command layer has seen the outcome of the call
Return(t) ==
    /\ pc[t] = "done"
    /\ pc' = [pc EXCEPT ![t] = "idle"]
    /\ result' = [result EXCEPT ![t] = NoResult]
    /\ arg' = [arg EXCEPT ![t] = NoMap]
    /\ UNCHANGED <<player, store, db, players, cost, busy, got, calls, turn, trip>>

\* ------------------------------------------- Player.update_travelling
\* lines 120-125 once dest is known: nothing pending -> return None; otherwise
\* clear _next_map, move the player and DEL next_map_{owner}
Arrive(dest) ==
    IF dest = NoMap
      THEN /\ Finish(Poller, "None")
           /\ UNCHANGED <<map, next_map, redis>>
      ELSE /\ next_map' = NoMap
           /\ map' = dest
           /\ redis' = [redis EXCEPT !["next_map"] = Nil]
           /\ Goto(Poller, "update_travelling_125")
           /\ UNCHANGED <<result, busy>>

\* line 110: await asyncio.sleep(1)
UpdateTravellingSleep ==
    /\ Owner \in players
    /\ pc[Poller] = "idle"
    /\ turn = "update_travelling"
    /\ Goto(Poller, "update_travelling_110")
    /\ UNCHANGED <<player, store, db, players, cost, arg, busy, got, result, calls, turn, trip>>

\* line 111: await is_travelling()
UpdateTravellingAsk ==
    /\ pc[Poller] = "update_travelling_110"
    /\ Await(Poller, is_travelling)
    /\ Goto(Poller, "update_travelling_111")
    /\ UNCHANGED <<player, store, db, players, cost, arg, got, result, calls, turn, trip>>

\* lines 111-125 after is_travelling() returned
UpdateTravellingCheck ==
    /\ pc[Poller] = "update_travelling_111"
    /\ IF busy[Poller]
         THEN /\ IF next_map = NoMap
                   THEN /\ got' = redis["next_map"]
                        /\ Goto(Poller, "update_travelling_113")
                        /\ UNCHANGED <<result, busy>>
                   ELSE /\ Finish(Poller, "None")
                        /\ UNCHANGED got
              /\ UNCHANGED <<map, next_map, redis>>
         ELSE IF next_map = NoMap
                THEN /\ got' = redis["next_map"]
                     /\ Goto(Poller, "update_travelling_117")
                     /\ UNCHANGED <<map, next_map, redis, result, busy>>
                ELSE /\ Arrive(next_map)
                     /\ UNCHANGED got
    /\ UNCHANGED <<status, explored_maps, ttl, db, players, cost, arg, calls, turn, trip>>

\* lines 113-115: the timer still runs, reload the destination from Redis
UpdateTravellingReload ==
    /\ pc[Poller] = "update_travelling_113"
    /\ next_map' = get_map(got)
    /\ got' = Nil
    /\ Finish(Poller, "None")
    /\ UNCHANGED <<map, status, explored_maps, store, db, players, cost, arg, calls, turn, trip>>

\* lines 117-125: the destination came from Redis
UpdateTravellingResolve ==
    /\ pc[Poller] = "update_travelling_117"
    /\ Arrive(get_map(got))
    /\ got' = Nil
    /\ UNCHANGED <<status, explored_maps, ttl, db, players, cost, arg, calls, turn, trip>>

\* line 126: SET status_{owner} "0"
UpdateTravellingSetStatus ==
    /\ pc[Poller] = "update_travelling_125"
    /\ redis' = [redis EXCEPT !["status"] = "0"]
    /\ Goto(Poller, "update_travelling_126")
    /\ UNCHANGED <<player, ttl, db, players, cost, arg, busy, got, result, calls, turn, trip>>

\* lines 127-128: self.status = Status.idle; return True
UpdateTravellingFinish ==
    /\ pc[Poller] = "update_travelling_126"
    /\ status' = Status.idle
    /\ Finish(Poller, "True")
    /\ UNCHANGED <<map, next_map, explored_maps, store, db, players, cost, arg, got, calls, turn, trip>>

update_travelling ==
    \/ UpdateTravellingSleep
    \/ UpdateTravellingAsk
    \/ UpdateTravellingCheck
    \/ UpdateTravellingReload
    \/ UpdateTravellingResolve
    \/ UpdateTravellingSetStatus
    \/ UpdateTravellingFinish

\* -------------------------------------------- Player.update_exploring
\* line 131: await asyncio.sleep(1)
UpdateExploringSleep ==
    /\ Owner \in players
    /\ pc[Poller] = "idle"
    /\ turn = "update_exploring"
    /\ Goto(Poller, "update_exploring_131")
    /\ UNCHANGED <<player, store, db, players, cost, arg, busy, got, result, calls, turn, trip>>

\* line 132: await is_exploring()
UpdateExploringAsk ==
    /\ pc[Poller] = "update_exploring_131"
    /\ Await(Poller, is_exploring)
    /\ Goto(Poller, "update_exploring_132")
    /\ UNCHANGED <<player, store, db, players, cost, arg, got, result, calls, turn, trip>>

\* lines 132-136 after is_exploring() returned: still exploring -> return;
\* in-memory status exploring -> SET status_{owner} "0"; otherwise GET status_{owner}
UpdateExploringCheck ==
    /\ pc[Poller] = "update_exploring_132"
    /\ IF busy[Poller]
         THEN /\ Finish(Poller, "None")
              /\ UNCHANGED <<redis, got>>
         ELSE IF status = Status.exploring
                THEN /\ redis' = [redis EXCEPT !["status"] = "0"]
                     /\ Goto(Poller, "update_exploring_136")
                     /\ UNCHANGED <<got, result, busy>>
                ELSE /\ got' = redis["status"]
                     /\ Goto(Poller, "update_exploring_134")
                     /\ UNCHANGED <<redis, result, busy>>
    /\ UNCHANGED <<player, ttl, db, players, cost, arg, calls, turn, trip>>

\* line 134, second operand: the GET reply == 2
UpdateExploringStored ==
    /\ pc[Poller] = "update_exploring_134"
    /\ IF PyEq(PyStr(got), PyInt(Status.exploring))
         THEN /\ redis' = [redis EXCEPT !["status"] = "0"]
              /\ Goto(Poller, "update_exploring_136")
              /\ UNCHANGED <<result, busy>>
         ELSE /\ Finish(Poller, "None")
              /\ UNCHANGED redis
    /\ got' = Nil
    /\ UNCHANGED <<player, ttl, db, players, cost, arg, calls, turn, trip>>

\* lines 137-138 without the assignment to self.status
UpdateExploringFinish_status_kept ==
    /\ pc[Poller] = "update_exploring_136"
    /\ Finish(Poller, "True")
    /\ UNCHANGED <<player, store, db, players, cost, arg, got, calls, turn, trip>>

\* lines 137-138: self.status = Status.idle; return True
UpdateExploringFinish ==
    /\ pc[Poller] = "update_exploring_136"
    /\ status' = Status.idle
    /\ Finish(Poller, "True")
    /\ UNCHANGED <<map, next_map, explored_maps, store, db, players, cost, arg, got, calls, turn, trip>>

update_exploring ==
    \/ UpdateExploringSleep
    \/ UpdateExploringAsk
    \/ UpdateExploringCheck
    \/ UpdateExploringStored
    \/ UpdateExploringFinish

\* ------------------------------------- an updater run without interleaving
\* the Player fields and the Redis keys an updater reads and writes
Snapshot ==
    [map |-> map, next_map |-> next_map, status |-> status,
     explored_maps |-> explored_maps, ttl |-> ttl, redis |-> redis]

\* what a call leaves behind: the state, the returned value and the number of
\* SET / DEL commands it sent
Outcome(s, r, w) == [state |-> s, returned |-> r, writes |-> w]

\* lines 109-128 without line 122 (self._next_map = None)
update_travelling_run_next_map_kept(s) ==
    IF s.ttl["travelling"] > 0
      THEN IF s.next_map = NoMap
             THEN Outcome([s EXCEPT !.next_map = get_map(s.redis["next_map"])], "None", 0)
             ELSE Outcome(s, "None", 0)
      ELSE LET dest == IF s.next_map = NoMap THEN get_map(s.redis["next_map"])
                       ELSE s.next_map IN
           IF dest = NoMap
             THEN Outcome(s, "None", 0)
             ELSE Outcome([s EXCEPT !.map = dest,
                                    !.redis = [next_map |-> Nil, status |-> "0"],
                                    !.status = Status.idle], "True", 2)

\* lines 109-128 run from state s with no other task and no expiry in between
update_travelling_run(s) ==
    IF s.ttl["travelling"] > 0
      THEN IF s.next_map = NoMap
             THEN Outcome([s EXCEPT !.next_map = get_map(s.redis["next_map"])], "None", 0)
             ELSE Outcome(s, "None", 0)
      ELSE LET dest == IF s.next_map = NoMap THEN get_map(s.redis["next_map"])
                       ELSE s.next_map IN
           IF dest = NoMap
             THEN Outcome(s, "None", 0)
             ELSE Outcome([s EXCEPT !.next_map = NoMap,
                                    !.map = dest,
                                    !.redis = [next_map |-> Nil, status |-> "0"],
                                    !.status = Status.idle], "True", 2)

\* lines 130-138 run from state s with no other task and no expiry in between
update_exploring_run(s) ==
    IF s.ttl["exploring"] > 0
      THEN Outcome(s, "None", 0)
      ELSE IF \/ s.status = Status.exploring
              \/ PyEq(PyStr(s.redis["status"]), PyInt(Status.exploring))
             THEN Outcome([s EXCEPT !.redis["status"] = "0",
                                    !.status = Status.idle], "True", 1)
             ELSE Outcome(s, "None", 0)

\* ------------------------------------------------------ polling loop
\* one updater returned; the loop calls the other one next
Poll ==
    /\ pc[Poller] = "done"
    /\ pc' = [pc EXCEPT ![Poller] = "idle"]
    /\ result' = [result EXCEPT ![Poller] = NoResult]
    /\ turn' = IF turn = "update_travelling" THEN "update_exploring" ELSE "update_travelling"
    /\ UNCHANGED <<player, store, db, players, cost, arg, busy, got, calls, trip>>

\* ------------------------------------------------------- environment
\* the seconds given to a timer key have passed: Redis drops the key
Expire(key) ==
    /\ ttl[key] > 0
    /\ ttl' = [ttl EXCEPT ![key] = 0]
    /\ UNCHANGED <<player, redis, db, players, cost, pc, arg, busy, got, result, calls, turn, trip>>

\* Player.save: upsert of map_id and explored
Save ==
    /\ db' = [map_id |-> map, explored |-> explored_maps]
    /\ UNCHANGED <<player, store, pc, arg, busy, got, result, calls, turn, trip, players, cost>>

\* what the PlayerManager gives a rebuilt Player from the players row
LoadedMap == db.map_id
LoadedExplored == db.explored

\* the process restarts: every task is gone, the Player is rebuilt by
\* Player.__init__ (no pending destination, default status), Redis is untouched
Restart ==
    /\ map' = LoadedMap
    /\ explored_maps' = LoadedExplored
    /\ next_map' = NoMap
    /\ status' = Status.idle
    /\ pc' = [t \in Tasks |-> "idle"]
    /\ arg' = [t \in Callers |-> NoMap]
    /\ busy' = [t \in Tasks |-> FALSE]
    /\ got' = Nil
    /\ result' = [t \in Tasks |-> NoResult]
    /\ turn' = "update_travelling"
    /\ UNCHANGED <<store, db, players, cost, calls, trip>>

NoCallRunning == \A t \in Callers : pc[t] = "idle"

\* ----------------------------------------------------- specifications
Steps ==
    \/ \E t \in Callers : travel_to(t)
    \/ \E t \in Callers : explore(t)
    \/ \E t \in Callers : Return(t)
    \/ update_travelling
    \/ update_exploring
    \/ Poll
    \/ \E key \in TimerKeys : Expire(key)

\* commands of the owner run as concurrent tasks next to the polling loop
Next ==
    \/ \E t \in Callers, d \in Maps : CallTravelTo(t, d)
    \/ \E t \in Callers : CallExplore(t)
    \/ Steps

Spec == Init /\ [][Next]_vars

\* one command of the owner at a time, next to the polling loop; the command
\* tasks are interchangeable, so the commands all run as the first one
NextSeq ==
    \/ \E d \in Maps : NoCallRunning /\ CallTravelTo(FirstCaller, d)
    \/ NoCallRunning /\ CallExplore(FirstCaller)
    \/ Steps

\* the event loop resumes every task that can run, and time passes; with one
\* command at a time at most one command task can run
Fairness ==
    /\ WF_vars(update_travelling \/ update_exploring \/ Poll)
    /\ WF_vars(\E t \in Callers : travel_to(t) \/ explore(t) \/ Return(t))
    /\ \A key \in TimerKeys : WF_vars(Expire(key))

SpecSeq == Init /\ [][NextSeq]_vars /\ Fairness

\* one command at a time; the player is saved now and then and the process may restart
NextRestart ==
    \/ NextSeq
    \/ Save
    \/ Restart

SpecRestart == Init /\ [][NextRestart]_vars

\* the same with the event loop and the clock running on
SpecRestartFair == Init /\ [][NextRestart]_vars /\ Fairness

\* ------------------------- Player.is_travelling / Player.is_exploring
\* a Python bool as the command layer gets it
PyBool(b) == IF b THEN "True" ELSE "False"

\* line 102 -> travel_time, lines 141-143: without a current map the call
\* awaits GET next_map_{owner} first, otherwise it awaits TTL travelling_{owner}
CallIsTravelling(t) ==
    /\ Owner \in players
    /\ pc[t] = "idle"
    /\ calls < MaxCalls
    /\ calls' = calls + 1
    /\ IF map = NoMap
         THEN Goto(t, "travel_time_142") /\ UNCHANGED busy
         ELSE Goto(t, "is_travelling_102") /\ Await(t, is_travelling)
    /\ UNCHANGED <<player, store, db, players, cost, arg, got, result, turn, trip>>

\* line 142: self.map = the reply of GET next_map_{owner}, then line 143;
\* line 102: return travel_time() > 0
IsTravellingReturn(t) ==
    /\ pc[t] \in {"travel_time_142", "is_travelling_102"}
    /\ IF pc[t] = "travel_time_142"
         THEN /\ map' = get_map(redis["next_map"])
              /\ Goto(t, "is_travelling_102")
              /\ Await(t, is_travelling)
              /\ UNCHANGED result
         ELSE /\ Finish(t, PyBool(busy[t]))
              /\ UNCHANGED map
    /\ UNCHANGED <<next_map, status, explored_maps, store, db, players, cost, arg, got, calls, turn, trip>>

\* line 105 -> explore_time, line 146: await TTL exploring_{owner}
CallIsExploring(t) ==
    /\ Owner \in players
    /\ pc[t] = "idle"
    /\ calls < MaxCalls
    /\ calls' = calls + 1
    /\ Await(t, is_exploring)
    /\ Goto(t, "is_exploring_105")
    /\ UNCHANGED <<player, store, db, players, cost, arg, got, result, turn, trip>>

\* line 105: return explore_time() > 0
IsExploringReturn(t) ==
    /\ pc[t] = "is_exploring_105"
    /\ Finish(t, PyBool(busy[t]))
    /\ UNCHANGED <<player, store, db, players, cost, arg, got, calls, turn, trip>>

\* one command at a time, the two queries among them, next to the polling loop
NextQuery ==
    \/ NextSeq
    \/ NoCallRunning /\ CallIsTravelling(FirstCaller)
    \/ NoCallRunning /\ CallIsExploring(FirstCaller)
    \/ \E t \in Callers : IsTravellingReturn(t)
    \/ \E t \in Callers : IsExploringReturn(t)

SpecQuery == Init /\ [][NextQuery]_vars

\* ------------------------------------------------------ Player.delete
\* the players table without a row of the owner
NoRow == [map_id |-> NoMap, explored |-> <<>>]

\* lines 205-208: DELETE FROM players WHERE owner_id = owner
CallDelete(t) ==
    /\ Owner \in players
    /\ pc[t] = "idle"
    /\ calls < MaxCalls
    /\ calls' = calls + 1
    /\ db' = NoRow
    /\ Goto(t, "delete_206")
    /\ UNCHANGED <<player, store, players, cost, arg, busy, got, result, turn, trip>>

\* line 209: DEL travelling_{owner}
DeleteDelTravelling(t) ==
    /\ pc[t] = "delete_206"
    /\ ttl' = [ttl EXCEPT !["travelling"] = 0]
    /\ Goto(t, "delete_209")
    /\ UNCHANGED <<player, redis, db, players, cost, arg, busy, got, result, calls, turn, trip>>

\* line 210: DEL next_map_{owner}
DeleteDelNextMap(t) ==
    /\ pc[t] = "delete_209"
    /\ redis' = [redis EXCEPT !["next_map"] = Nil]
    /\ Goto(t, "delete_210")
    /\ UNCHANGED <<player, ttl, db, players, cost, arg, busy, got, result, calls, turn, trip>>

\* line 211: DEL exploring_{owner}
DeleteDelExploring(t) ==
    /\ pc[t] = "delete_210"
    /\ ttl' = [ttl EXCEPT !["exploring"] = 0]
    /\ Goto(t, "delete_211")
    /\ UNCHANGED <<player, redis, db, players, cost, arg, busy, got, result, calls, turn, trip>>

\* line 212: DEL status_{owner}
DeleteDelStatus(t) ==
    /\ pc[t] = "delete_211"
    /\ redis' = [redis EXCEPT !["status"] = Nil]
    /\ Goto(t, "delete_212")
    /\ UNCHANGED <<player, ttl, db, players, cost, arg, busy, got, result, calls, turn, trip>>

\* lines 213-215: player_manager.players.remove(self), and the call returns
DeleteRemove(t) ==
    /\ pc[t] = "delete_212"
    /\ players' = players \ {Owner}
    /\ Finish(t, "deleted")
    /\ UNCHANGED <<player, store, db, cost, arg, got, calls, turn, trip>>

delete(t) ==
    \/ DeleteDelTravelling(t)
    \/ DeleteDelNextMap(t)
    \/ DeleteDelExploring(t)
    \/ DeleteDelStatus(t)
    \/ DeleteRemove(t)

\* one command at a time, delete among them, next to the polling loop
NextDelete ==
    \/ NextSeq
    \/ NoCallRunning /\ CallDelete(FirstCaller)
    \/ \E t \in Callers : delete(t)

SpecDelete == Init /\ [][NextDelete]_vars

\* ------------------------------------------------ TimerStore failures
\* A Redis command raises instead of being carried out: the coroutine has run
\* up to the command, the command has no effect and the exception leaves the
\* coroutine.

\* travel_to: TTL of lines 151-158, SET of line 164 (after line 161 has set
\* _next_map), SET of line 165, SET of line 166
TravelToStoreFails(t) ==
    /\ pc[t] \in {"travel_to_151", "travel_to_155", "travel_to_164", "travel_to_165"}
    /\ next_map' = IF pc[t] = "travel_to_155" /\ ~busy[t] THEN arg[t] ELSE next_map
    /\ Finish(t, "StoreUnavailable")
    /\ UNCHANGED <<map, status, explored_maps, store, db, players, cost, arg, got, calls, turn, trip>>

\* explore: TTL of lines 170-177, SET of line 183, SET of line 184
ExploreStoreFails(t) ==
    /\ \/ pc[t] \in {"explore_170", "explore_183"}
       \/ pc[t] = "explore_174" /\ (busy[t] \/ ~InSeq(map, explored_maps))
    /\ Finish(t, "StoreUnavailable")
    /\ UNCHANGED <<player, store, db, players, cost, arg, got, calls, turn, trip>>

\* update_travelling: TTL of line 111, GET of lines 113 / 117, DEL of line 125
\* (after lines 122-124 have moved the player), SET of line 126
UpdateTravellingStoreFails ==
    LET dest == IF pc[Poller] = "update_travelling_117" THEN get_map(got) ELSE next_map
        moved == \/ pc[Poller] = "update_travelling_117" /\ dest # NoMap
                 \/ pc[Poller] = "update_travelling_111" /\ ~busy[Poller] /\ dest # NoMap
    IN  /\ \/ pc[Poller] \in {"update_travelling_110", "update_travelling_125"}
           \/ pc[Poller] = "update_travelling_111" /\ (next_map = NoMap \/ ~busy[Poller])
           \/ pc[Poller] = "update_travelling_117" /\ dest # NoMap
        /\ IF moved
             THEN next_map' = NoMap /\ map' = dest
             ELSE UNCHANGED <<map, next_map>>
        /\ got' = Nil
        /\ Finish(Poller, "StoreUnavailable")
        /\ UNCHANGED <<status, explored_maps, store, db, players, cost, arg, calls, turn, trip>>

\* update_exploring: TTL of line 132, GET of line 134, SET of line 136
UpdateExploringStoreFails ==
    /\ \/ pc[Poller] = "update_exploring_131"
       \/ pc[Poller] = "update_exploring_132" /\ ~busy[Poller]
    /\ Finish(Poller, "StoreUnavailable")
    /\ UNCHANGED <<player, store, db, players, cost, arg, got, calls, turn, trip>>

StoreFails ==
    \/ \E t \in Callers : TravelToStoreFails(t)
    \/ \E t \in Callers : ExploreStoreFails(t)
    \/ UpdateTravellingStoreFails
    \/ UpdateExploringStoreFails

\* one command at a time, the polling loop, and a TimerStore that may fail
NextFail ==
    \/ NextSeq
    \/ StoreFails

SpecFail == Init /\ [][NextFail]_vars

\* ------------------------------------------- cancelling the polling loop
\* the process shuts down while the polling loop is inside an updater and no
\* command is running, and starts again
Cancel ==
    /\ NoCallRunning
    /\ pc[Poller] \notin {"idle", "done"}
    /\ Restart

\* one command at a time; the player is saved now and then; the process may
\* be shut down in the middle of a poll
NextCancel ==
    \/ NextSeq
    \/ Save
    \/ Cancel

SpecCancel == Init /\ [][NextCancel]_vars

\* the durations travel_to and explore compute for a map of density
\* from_density, a destination of density to_density and a clock that moves on
\* by delta microseconds between the two reads of datetime.now()
Quote(from_density, to_density, delta) ==
    /\ cost = NoCost
    /\ cost' = [from |-> from_density, to |-> to_density, delta |-> delta,
                travel |-> travel_seconds(from_density, to_density, delta),
                explore |-> explore_seconds(from_density, delta)]
    /\ UNCHANGED <<player, store, db, pc, arg, busy, got, result, calls, turn, trip, players>>

\* one quote, for any two densities and any clock delta
NextCost ==
    /\ cost = NoCost
    /\ \E from_density, to_density \in 1 .. MaxCostDensity, delta \in 0 .. MaxClockDelta :
            Quote(from_density, to_density, delta)

SpecCost == Init /\ [][NextCost]_vars

\* ================================================================ claims
Stepped(t) == pc'[t] # pc[t]
TimerRuns(key) == ttl[key] > 0
ExploreCall(t) == arg[t] = NoMap
Rejected(t, error) == pc[t] = "done" /\ result[t] = error

\* C1: with one command at a time, the travelling timer and the exploring
\* timer are never both running: a travel_to or explore issued while a timer
\* runs starts no second timer.
C1_OneTimerAtATime == ~(TimerRuns("travelling") /\ TimerRuns("exploring"))

\* a command was turned down with the busy error while a timer runs
C1_Witness ==
    \E t \in Callers :
        /\ Rejected(t, "AlreadyTravelling")
        /\ TimerRuns("travelling") \/ TimerRuns("exploring")

\* C3: a travel_to that is called while the travelling timer runs goes
\* through its three steps (ask, look at the answer, raise) to
\* AlreadyTravelling and none of them touches the Player or Redis.
C3_SecondTravelRejected ==
    [][\A t \in Callers :
         /\ (pc[t] = "idle" /\ pc'[t] = "travel_to_151" /\ TimerRuns("travelling"))
              => (busy'[t] /\ UNCHANGED <<player, store>>)
         /\ (pc[t] = "travel_to_151" /\ busy[t] /\ Stepped(t))
              => (pc'[t] = "travel_to_154" /\ UNCHANGED <<player, store>>)
         /\ (pc[t] = "travel_to_154" /\ Stepped(t))
              => (Rejected(t, "AlreadyTravelling")' /\ UNCHANGED <<player, store>>)
      ]_vars

\* the second travel_to, for another destination, was turned down and the
\* first travel is as the first call left it
C3_Witness ==
    \E t \in Callers :
        /\ Rejected(t, "AlreadyTravelling")
        /\ arg[t] \in Maps /\ arg[t] # trip.to
        /\ TimerRuns("travelling")
        /\ next_map = trip.to /\ redis["next_map"] = str(trip.to)
        /\ status = Status.travelling /\ map = trip.from

\* C4: an explore that finds the exploring timer running ends with the busy
\* error AlreadyTravelling, also when the current map is in explored_maps;
\* it does not end with AlreadyExplored.
C4_SecondExploreBusy ==
    [][\A t \in Callers :
         /\ (pc[t] = "explore_170" /\ ~busy[t] /\ TimerRuns("exploring") /\ Stepped(t))
              => (pc'[t] = "explore_174" /\ busy'[t])
         /\ (pc[t] = "explore_174" /\ busy[t] /\ Stepped(t))
              => (pc'[t] = "explore_177" /\ result'[t] = NoResult)
         /\ (pc[t] = "explore_177" /\ Stepped(t))
              => Rejected(t, "AlreadyTravelling")'
      ]_vars

\* the second explore on the map being explored was turned down as busy
C4_Witness ==
    \E t \in Callers :
        /\ ExploreCall(t) /\ Rejected(t, "AlreadyTravelling")
        /\ TimerRuns("exploring") /\ ~TimerRuns("travelling")
        /\ status = Status.exploring
        /\ InSeq(map, explored_maps)

\* C5 as stated: an explore that ends while the current map is in
\* explored_maps ends with AlreadyExplored, whatever the timers say.
C5_AlwaysAlreadyExplored ==
    [][\A t \in Callers :
         (pc[t] \in {"explore_173", "explore_174", "explore_177"}
            /\ InSeq(map, explored_maps) /\ pc'[t] = "done")
           => result'[t] = "AlreadyExplored"
      ]_vars

\* C5 amended: with the current map in explored_maps, explore never starts an
\* exploration: it ends with AlreadyExplored when neither timer was running
\* when explore asked for it, and with AlreadyTravelling when one was.
C5_ExploredMapNeverStarted ==
    [][\A t \in Callers :
         /\ (pc[t] = "explore_170" /\ busy[t] /\ Stepped(t))
              => pc'[t] = "explore_173"
         /\ (pc[t] \in {"explore_173", "explore_177"} /\ Stepped(t))
              => Rejected(t, "AlreadyTravelling")'
         /\ (pc[t] = "explore_174" /\ InSeq(map, explored_maps) /\ Stepped(t))
              => IF busy[t] THEN pc'[t] = "explore_177"
                 ELSE Rejected(t, "AlreadyExplored")' /\ UNCHANGED <<player, store>>
      ]_vars

\* explore was turned down for a map in explored_maps with no timer running
C5_Witness ==
    \E t \in Callers :
        /\ ExploreCall(t) /\ Rejected(t, "AlreadyExplored")
        /\ InSeq(map, explored_maps)
        /\ ~TimerRuns("travelling") /\ ~TimerRuns("exploring")

\* a command that went past both busy checks and has written its timer key
PastGuard(t) ==
    pc[t] \in {"travel_to_164", "travel_to_165", "travel_to_166", "explore_183", "explore_184"}

\* C2: two commands of the owner that run as concurrent tasks never both get
\* past the busy guard: at most one of them is writing its keys at a time.
C2_MutationsSerialized ==
    \A t1, t2 \in Callers : (PastGuard(t1) /\ PastGuard(t2)) => t1 = t2

\* C6: whenever the status of the Player is Idle, neither timer runs.
C6_IdleMeansNoTimer ==
    status = Status.idle => (~TimerRuns("travelling") /\ ~TimerRuns("exploring"))

\* C7: the status of the Player is Travelling exactly when the travelling
\* timer runs.
C7_TravellingIffTimer ==
    (status = Status.travelling) <=> TimerRuns("travelling")

\* C8: as long as the travelling timer of a travel runs, the player is still
\* on the map the travel started from.
C8_OriginUntilTimerLapses ==
    TimerRuns("travelling") => map = trip.from

\* C10: when the Player has been rebuilt while the travelling timer runs (no
\* destination in memory, no travel_to running), the next_map key holds the
\* destination given to travel_to, so that resolution can move the player.
C10_DestinationSurvivesRestart ==
    (TimerRuns("travelling") /\ NoCallRunning /\ next_map = NoMap)
        => redis["next_map"] = str(trip.to)

\* the polling loop is between the writes of a resolution
Resolving ==
    pc[Poller] \in {"update_travelling_125", "update_travelling_126", "update_exploring_136"}

\* the Player is Idle as the data model defines it: no timer, no pending
\* destination, no resolution under way
AtRest ==
    /\ status = Status.idle /\ next_map = NoMap
    /\ ~TimerRuns("travelling") /\ ~TimerRuns("exploring")
    /\ redis["next_map"] = Nil
    /\ ~Resolving

\* C9: when explore is called on an unexplored map while the Player is Idle,
\* then, unless the owner issues another command first, the player gets to
\* status Idle with status key "0" and its map in explored_maps once the
\* exploring timer has lapsed and the polling loop has run.
C9_ExploreFromIdle ==
    /\ AtRest /\ ~InSeq(map, explored_maps)
    /\ pc[FirstCaller] = "explore_170" /\ ~busy[FirstCaller]
C9_Resolved ==
    /\ status = Status.idle /\ redis["status"] = "0" /\ InSeq(map, explored_maps)
    /\ ~TimerRuns("exploring")
C9_ExploreResolves ==
    \A n \in 0 .. MaxCalls :
        (C9_ExploreFromIdle /\ calls = n) ~> (C9_Resolved \/ calls > n)

\* update_exploring has just reported the end of an exploration
C9_Witness ==
    /\ pc[Poller] = "done" /\ turn = "update_exploring" /\ result[Poller] = "True"
    /\ status = Status.idle /\ redis["status"] = "0"
    /\ ~TimerRuns("exploring")
    /\ Len(explored_maps) > 1 /\ InSeq(map, explored_maps)

\* the process restarts again and again, so that no poll ever gets to its end
RestartsForever == []<><<Restart>>_vars

\* the Player was rebuilt while an exploration was in progress, and the
\* exploring timer has lapsed since: default status in memory, status key "2"
C11_RebuiltWhileExploring ==
    /\ status = Status.idle /\ redis["status"] = "2"
    /\ ~TimerRuns("exploring") /\ ~TimerRuns("travelling")
    /\ NoCallRunning /\ ~Resolving

\* C11: when the Player was rebuilt during an exploration (default status in
\* memory, status key "2" still in Redis) and the exploring timer has lapsed,
\* the polling loop gets the status key to "0", unless the owner issues
\* another command first or the process never stops restarting.
C11_RestartedExploreResolves ==
    RestartsForever \/
    \A n \in 0 .. MaxCalls :
        (C11_RebuiltWhileExploring /\ calls = n) ~> (redis["status"] = "0" \/ calls > n)

\* a second run changes nothing, returns None and sends no SET / DEL
SecondRunIdle(once, twice) ==
    /\ twice.state = once.state
    /\ twice.returned = "None"
    /\ twice.writes = 0

\* C12: in every reachable state, update_travelling run twice in a row leaves
\* the Player and Redis as one run does, and the second run returns None and
\* writes nothing; the same for update_exploring; with no timer and no pending
\* destination a run of update_travelling changes nothing at all.
C12_ResolutionIdempotent ==
    LET travelled == update_travelling_run(Snapshot)
        explored == update_exploring_run(Snapshot)
    IN  /\ SecondRunIdle(travelled, update_travelling_run(travelled.state))
        /\ SecondRunIdle(explored, update_exploring_run(explored.state))
        /\ (/\ ~TimerRuns("travelling") /\ ~TimerRuns("exploring")
            /\ next_map = NoMap /\ redis["next_map"] = Nil)
             => travelled = Outcome(Snapshot, "None", 0)

\* a state in which a first run of each updater resolves an activity: the
\* travel timer has lapsed with a destination pending, and the exploring
\* timer has lapsed with status Exploring
C12_Witness ==
    /\ update_travelling_run(Snapshot).returned = "True"
    /\ update_travelling_run(Snapshot).state.map # map
    /\ update_exploring_run(Snapshot).returned = "True"

\* C17: the seconds written on the travelling key are
\* floor(3600 * (from.density + to.density) / 1234), the seconds written on the
\* exploring key are floor(3600 * density * 1234 / 1000000) (3600 / 1000000
\* taken as 9 / 2500), whatever the time between the two clock reads, and
\* both are at least 1.
C17_TtlIsFloorOfCost ==
    cost # NoCost =>
        /\ cost.travel = (SecondsPerHour * (cost.from + cost.to)) \div TravelDivisor
        /\ cost.explore = (9 * cost.from * ExploreFactor) \div 2500
        /\ cost.travel >= 1
        /\ cost.explore >= 1

\* C16: the player is only ever moved to the destination of a travel whose
\* travelling timer was actually set; a travel_to whose write of the timer key
\* failed never moves the player.
C16_NoMoveWithoutTimer ==
    [][map' # map => map' = trip.to]_vars

\* C13: next_map is only ever set to the destination of a travel whose
\* travelling timer was set, and a travel_to that ends in an error leaves
\* next_map as it found it.
C13_NextMapOnlyWhileTravelling ==
    /\ [](next_map # NoMap => next_map = trip.to)
    /\ [][\A t \in Callers :
            (pc[t] # "done" /\ pc'[t] = "done" /\ ~ExploreCall(t) /\ result'[t] # "ok")
               => next_map' = next_map
         ]_vars

\* none of the four keys of the owner exists
NoKeys ==
    /\ ~TimerRuns("travelling") /\ ~TimerRuns("exploring")
    /\ redis["next_map"] = Nil /\ redis["status"] = Nil

\* C14: when delete() returns, none of the four keys of the owner exists, the
\* row of the owner is gone and the Player is out of the registry.
C14_DeleteRemovesEverything ==
    [][\A t \in Callers :
         (pc[t] = "delete_212" /\ pc'[t] = "done")
            => (NoKeys /\ db = NoRow /\ Owner \notin players)'
      ]_vars

\* C20: once delete() has returned and the polling loop has come to rest,
\* none of the four keys of the owner exists.
C20_DeletionIsFinal ==
    (Owner \notin players /\ pc[Poller] \in {"idle", "done"}) => NoKeys

\* nothing is left to resolve and nothing is under way
NothingPending ==
    /\ ~TimerRuns("travelling") /\ ~TimerRuns("exploring")
    /\ next_map = NoMap /\ redis["next_map"] = Nil
    /\ NoCallRunning /\ ~Resolving

\* C15: a poll that was cut off and retried from scratch ends where an
\* uninterrupted one ends: once no travel is left to resolve, the status key
\* does not say Travelling any more.
C15_CancelledPollRetried ==
    NothingPending => redis["status"] # "1"

\* C18: is_travelling() returns whether the travelling timer runs when it
\* asks, is_exploring() whether the exploring timer does; no step of either
\* changes a Player field or a Redis key, and the branch of travel_time that
\* would reload the map is never entered because the Player always has a map.
C18_QueriesArePure ==
    [][\A t \in Callers :
         /\ (pc[t] = "idle" /\ pc'[t] = "is_travelling_102")
              => ((busy'[t] <=> TimerRuns("travelling")) /\ UNCHANGED <<player, store>>)
         /\ (pc[t] = "idle" /\ pc'[t] = "is_exploring_105")
              => ((busy'[t] <=> TimerRuns("exploring")) /\ UNCHANGED <<player, store>>)
         /\ (pc[t] \in {"is_travelling_102", "is_exploring_105"} /\ Stepped(t))
              => (/\ pc'[t] = "done" /\ result'[t] = PyBool(busy[t])
                  /\ UNCHANGED <<player, store>>)
         /\ pc'[t] # "travel_time_142"
      ]_vars

\* is_exploring() has read the TTL of a running exploration, on a map the
\* player has travelled to
C18_Witness ==
    \E t \in Callers :
        /\ pc[t] = "is_exploring_105" /\ busy[t]
        /\ TimerRuns("exploring") /\ status = Status.exploring
        /\ map # StartMapId

\* C19: the map changes only while no travelling timer runs, and only to the
\* destination of the travel whose timer was written last; the next_map key
\* is never removed while a travelling timer runs.
C19_MapChangesOnlyOnArrival ==
    [][/\ map' # map => (~TimerRuns("travelling") /\ map' = trip.to)
       /\ (redis["next_map"] # Nil /\ redis'["next_map"] = Nil)
            => ~TimerRuns("travelling")
      ]_vars

====
